---- MODULE Spec2Model ----
(***************************************************************************)
(* Model of the projection engine of the investing dashboard               *)
(* (src/src/helper/calc/portfolio_growth_calc.py) and of the statistics of *)
(* a price table (src/src/helper/data.py).                                 *)
(*                                                                         *)
(* Python's float is a binary floating-point number: every arithmetic      *)
(* operation returns the exact result rounded to the nearest representable *)
(* value, ties to even.  The model keeps that semantics in a miniature     *)
(* format: a value is an integer count of the smallest step 1/Unit, and a  *)
(* representable value has at most Precision significant bits.  (IEEE      *)
(* double is the same format with 53 bits.)                                *)
(***************************************************************************)
EXTENDS Integers, Sequences, FiniteSets

VARIABLES call, pc, error, args, period, month, current_balance,
          total_contributions, timeline, schedule, summary, data, result

vars == <<call, pc, error, args, period, month, current_balance,
          total_contributions, timeline, schedule, summary, data, result>>

----------------------------------------------------------------------------
(* Bounds of the model *)

\* significant bits of a float
Precision == 5

\* binary digits after the point of the smallest representable step
FracBits == 8

\* whole years a growth projection may be asked for
MaxYears == 2

\* months of a debt schedule the model records
MaxMonths == 24

\* rows of a price table
MaxRows == 4

----------------------------------------------------------------------------
(* Floating-point arithmetic *)

\* the float 1.0, in steps
Unit == 2 ^ FracBits

Abs(x) == IF x < 0 THEN 0 - x ELSE x

Sign(x) == IF x < 0 THEN 0 - 1 ELSE 1

\* spacing of the representable values around a / d (a >= 0, d > 0)
Ulp[a \in Nat, d \in Nat] ==
    IF a < (2 ^ Precision) * d THEN 1 ELSE 2 * Ulp[a, 2 * d]

\* the representable value nearest to n / d (d > 0), ties to the even significand
Nearest[n \in Int, d \in Nat] ==
    LET a == Abs(n)
        q == d * Ulp[a, d]
        fl == a \div q
        rem == a % q
        up == (2 * rem > q) \/ (2 * rem = q /\ fl % 2 = 1)
    IN Sign(n) * (IF up THEN fl + 1 ELSE fl) * (q \div d)

\* the float a Python operation returns for the exact result n / d
RoundQ(n, d) == Nearest[n, d]

FAdd(a, b) == RoundQ(a + b, 1)

FSub(a, b) == RoundQ(a - b, 1)

FMul(a, b) == RoundQ(a * b, Unit)

\* a / b for b # 0 (Python raises ZeroDivisionError for b = 0)
FDiv(a, b) == RoundQ(Sign(b) * a * Unit, Abs(b))

\* a / m for a float a and a Python int m > 0
FDivInt(a, m) == RoundQ(a, m)

\* n / m of two Python ints, m > 0
IntDiv(n, m) == RoundQ(n * Unit, m)

\* the exponent of the largest power of two that divides b (b # 0)
TwoExp[b \in Int] == IF b % 2 = 0 THEN 1 + TwoExp[b \div 2] ELSE 0

\* b without its factors of two (b # 0)
OddPart[b \in Int] == IF b % 2 = 0 THEN OddPart[b \div 2] ELSE b

\* b ** y for a Python int y >= 0: the exact power (b / Unit) ^ y, rounded once;
\* the powers of two of b and Unit are cancelled before the power is taken
FPow(b, y) ==
    IF y = 0 THEN Unit
    ELSE IF b = 0 THEN 0
    ELSE LET x == y * (TwoExp[b] - FracBits) + FracBits
         IN IF x >= 0
            THEN RoundQ((OddPart[b] ^ y) * (2 ^ x), 1)
            ELSE RoundQ(OddPart[b] ^ y, 2 ^ (0 - x))

\* lower and upper bound, in steps, of the exact power (a / Unit) ^ n for a >= 0,
\* by squaring and multiplying with the products rounded down and up
PowBounds[a \in Nat, n \in Nat] ==
    IF n = 0 THEN <<Unit, Unit>>
    ELSE IF n % 2 = 1
         THEN LET p == PowBounds[a, n - 1]
              IN <<(p[1] * a) \div Unit, (p[2] * a + Unit - 1) \div Unit>>
         ELSE LET p == PowBounds[a, n \div 2]
              IN <<(p[1] * p[1]) \div Unit, (p[2] * p[2] + Unit - 1) \div Unit>>

\* b ** n for a Python int n too large for the power to be taken exactly: the
\* floats the exact power can round to, one value unless the bounds of the
\* exact power lie on both sides of a rounding boundary
PowResults(b, n) ==
    LET p == PowBounds[Abs(b), n]
        s == IF b < 0 /\ n % 2 = 1 THEN 0 - 1 ELSE 1
    IN {s * RoundQ(v, 1) : v \in p[1] .. p[2]}

\* x > 0.01: no representable value lies between 1/100 and the float 0.01
GreaterThanCent(x) == 100 * x > Unit

Min(a, b) == IF a < b THEN a ELSE b

Max(a, b) == IF a > b THEN a ELSE b

----------------------------------------------------------------------------
(* Inputs the model draws the calls' arguments from, as floats *)

\* n / 8 as a float
Eighths(n) == (n * Unit) \div 8

StartingBalances == {0, Eighths(8), Eighths(64)}

Contributions == {0, Eighths(1)}

Frequencies == {"daily", "weekly", "monthly", "quarterly", "yearly"}

YearCounts == 0 .. MaxYears

AnnualReturns == {0 - Eighths(6), 0, Eighths(6)}

Inflations == {0, Eighths(2)}

\* the smallest step above 1/16: a principal that one payment of 1/16 brings
\* below a cent without clearing it
JustOverSixteenth == Eighths(1) \div 2 + 1

Principals ==
    {0, JustOverSixteenth, Eighths(64), Eighths(72), Eighths(80), Eighths(96)}

InterestRates == {0, Eighths(12)}

Payments ==
    {Eighths(1) \div 2, Eighths(2), Eighths(5), Eighths(8), Eighths(12),
     Eighths(16), Eighths(68)}

TargetAmounts == {0, Eighths(8), Eighths(64)}

CurrentAges == {30, 31}

RetirementAges == 30 .. (30 + MaxYears)

CurrentSavings == {0, Eighths(8)}

RetirementReturns == {0 - Eighths(64), 0, Eighths(1), Eighths(6)}

\* prices of a series: 0.5, 1.0, 1.5
Prices == {Eighths(4), Eighths(8), Eighths(12)}

\* the price series of up to MaxRows rows, none missing
PriceSeries == UNION {[1 .. n -> Prices] : n \in 0 .. MaxRows}

\* the windows a moving average is asked for, as one-element lists
WindowLists == {<<w>> : w \in 1 .. MaxRows + 1}

----------------------------------------------------------------------------
(* State before any call *)

NoArgs == [function |-> "none"]

NoSummary == [function |-> "none"]

EmptyTimeline ==
    [years |-> <<>>, balance |-> <<>>, contributions |-> <<>>,
     interest |-> <<>>, real_value_balance |-> <<>>]

EmptySchedule ==
    [months |-> <<>>, remaining_balance |-> <<>>,
     interest_payments |-> <<>>, principal_payments |-> <<>>]

\* no table: no index and no column
NoTable == [index |-> <<>>, columns |-> <<>>]

Init ==
    /\ call = "none"
    /\ pc = "idle"
    /\ error = "none"
    /\ args = NoArgs
    /\ period = 0
    /\ month = 0
    /\ current_balance = 0
    /\ total_contributions = 0
    /\ timeline = EmptyTimeline
    /\ schedule = EmptySchedule
    /\ summary = NoSummary
    /\ data = NoTable
    /\ result = NoTable

----------------------------------------------------------------------------
(* calculate_cumulative_growth *)

frequency_map == [daily |-> 365, weekly |-> 52, monthly |-> 12, quarterly |-> 4]

\* the frequency check left out
ValidFrequencyUnchecked(f) == TRUE

\* contribution_frequency in frequency_map
ValidFrequency(f) == f \in DOMAIN frequency_map

periods_per_year == frequency_map[args.contribution_frequency]

total_periods == args.years * periods_per_year

period_return == FDivInt(args.annual_return, periods_per_year)

\* the escalation counted from the year that has begun, not the years completed
AdjustedContributionYearAhead(p) ==
    LET current_year == p \div periods_per_year
    IN IF args.inflation_adjust_contributions
       THEN FMul(args.periodic_contribution,
                 FPow(FAdd(Unit, args.annual_inflation), current_year + 1))
       ELSE args.periodic_contribution

\* the contribution of loop iteration p
adjusted_contribution(p) ==
    LET current_year == p \div periods_per_year
    IN IF args.inflation_adjust_contributions /\ current_year > 0
       THEN FMul(args.periodic_contribution,
                 FPow(FAdd(Unit, args.annual_inflation), current_year))
       ELSE args.periodic_contribution

\* the contribution added before the growth is applied
GrowBalanceContributionFirst(balance, contribution) ==
    FMul(FAdd(balance, contribution), FAdd(Unit, period_return))

\* the balance multiplied by the bare rate
GrowBalanceRateOnly(balance, contribution) ==
    FAdd(FMul(balance, period_return), contribution)

\* balance * (1 + period_return) + contribution
GrowBalance(balance, contribution) ==
    FAdd(FMul(balance, FAdd(Unit, period_return)), contribution)

\* the inflation-adjusted value balance / ((1 + annual_inflation) ** years_elapsed),
\* kept as the pair it is computed from: the exponent is fractional
RealValue(balance, years_elapsed) ==
    [balance |-> balance,
     deflator_years |-> IF args.annual_inflation > 0 THEN years_elapsed ELSE 0]

\* the interest recorded as contributions - balance
RecordSnapshotInterestReversed(tl, p, balance, contributed) ==
    [years |-> Append(tl.years, IntDiv(p, periods_per_year)),
     balance |-> Append(tl.balance, balance),
     contributions |-> Append(tl.contributions, contributed),
     interest |-> Append(tl.interest, FSub(contributed, balance)),
     real_value_balance |->
         Append(tl.real_value_balance,
                RealValue(balance, IntDiv(p, periods_per_year)))]

\* the elapsed years taken with the floor division period // periods_per_year
RecordSnapshotFloorYears(tl, p, balance, contributed) ==
    LET years_elapsed == (p \div periods_per_year) * Unit
    IN [years |-> Append(tl.years, years_elapsed),
        balance |-> Append(tl.balance, balance),
        contributions |-> Append(tl.contributions, contributed),
        interest |-> Append(tl.interest, FSub(balance, contributed)),
        real_value_balance |->
            Append(tl.real_value_balance, RealValue(balance, years_elapsed))]

\* the snapshot a loop iteration appends to the five lists
RecordSnapshot(tl, p, balance, contributed) ==
    LET years_elapsed == IntDiv(p, periods_per_year)
    IN [years |-> Append(tl.years, years_elapsed),
        balance |-> Append(tl.balance, balance),
        contributions |-> Append(tl.contributions, contributed),
        interest |-> Append(tl.interest, FSub(balance, contributed)),
        real_value_balance |->
            Append(tl.real_value_balance, RealValue(balance, years_elapsed))]

CallGrowth(sb, c, f, y, r, i, adj) ==
    /\ pc = "idle"
    /\ call' = "growth"
    /\ args' = [function |-> "calculate_cumulative_growth",
                starting_balance |-> sb, periodic_contribution |-> c,
                contribution_frequency |-> f, years |-> y, annual_return |-> r,
                annual_inflation |-> i, inflation_adjust_contributions |-> adj]
    /\ IF ~ValidFrequency(f)
       THEN /\ pc' = "raised"
            /\ error' = "ValueError"
            /\ UNCHANGED <<current_balance, total_contributions>>
       ELSE /\ pc' = "loop"
            /\ error' = "none"
            /\ current_balance' = sb
            /\ total_contributions' = sb
    /\ period' = 0
    /\ timeline' = EmptyTimeline
    /\ UNCHANGED <<data, result>>
    /\ UNCHANGED <<month, schedule, summary>>

GrowthStep ==
    /\ call = "growth"
    /\ pc = "loop"
    /\ period <= total_periods
    /\ timeline' = RecordSnapshot(timeline, period, current_balance, total_contributions)
    /\ IF period < total_periods
       THEN /\ current_balance' =
                   GrowBalance(current_balance, adjusted_contribution(period))
            /\ total_contributions' =
                   FAdd(total_contributions, adjusted_contribution(period))
       ELSE UNCHANGED <<current_balance, total_contributions>>
    /\ period' = period + 1
    /\ UNCHANGED <<data, result>>
    /\ UNCHANGED <<call, pc, error, args, month, schedule, summary>>

Last(s) == s[Len(s)]

\* (final_balance / starting_balance) ** (1 / years) - 1 if years > 0 else 0; the
\* root is kept as the ratio and the exponent it is computed from
EffectiveReturn(final_balance) ==
    IF args.years > 0
    THEN [ratio |-> FDiv(final_balance, args.starting_balance),
          exponent |-> IntDiv(1, args.years)]
    ELSE [ratio |-> 0, exponent |-> 0]

GrowthSummary ==
    LET final_balance == Last(timeline.balance)
        total_contributed == Last(timeline.contributions)
    IN [function |-> "calculate_cumulative_growth",
        final_balance |-> final_balance,
        final_real_value |-> Last(timeline.real_value_balance),
        total_contributed |-> total_contributed,
        total_interest |-> FSub(final_balance, total_contributed),
        effective_annual_return |-> EffectiveReturn(final_balance),
        years |-> args.years,
        starting_balance |-> args.starting_balance,
        periodic_contribution |-> args.periodic_contribution,
        contribution_frequency |-> args.contribution_frequency,
        target_annual_return |-> args.annual_return,
        annual_inflation |-> args.annual_inflation,
        inflation_adjust_contributions |-> args.inflation_adjust_contributions]

\* the root taken whatever the years: 1 / years divides by zero for years = 0
DividesByZeroUnguarded == args.years = 0 \/ args.starting_balance = 0

\* the division final_balance / starting_balance is evaluated only for years > 0
DividesByZero == args.years > 0 /\ args.starting_balance = 0

GrowthReturn ==
    /\ call = "growth"
    /\ pc = "loop"
    /\ period = total_periods + 1
    /\ IF DividesByZero
       THEN /\ pc' = "raised"
            /\ error' = "ZeroDivisionError"
            /\ UNCHANGED summary
       ELSE /\ pc' = "returned"
            /\ summary' = GrowthSummary
            /\ UNCHANGED error
    /\ UNCHANGED <<data, result>>
    /\ UNCHANGED <<call, args, period, month, current_balance,
                   total_contributions, timeline, schedule>>

----------------------------------------------------------------------------
(* calculate_debt_payoff *)

monthly_rate == FDivInt(args.annual_interest_rate, 12)

\* the check with < in place of <=
PaymentTooLowStrict(principal, annual_interest_rate, monthly_payment) ==
    monthly_payment < FMul(principal, FDivInt(annual_interest_rate, 12))

\* monthly_payment <= principal * monthly_rate
PaymentTooLow(principal, annual_interest_rate, monthly_payment) ==
    monthly_payment <= FMul(principal, FDivInt(annual_interest_rate, 12))

interest_payment == FMul(current_balance, monthly_rate)

\* the whole payment less the interest, even when the balance is smaller
PrincipalPaymentUncapped == FSub(args.monthly_payment, interest_payment)

principal_payment ==
    Min(FSub(args.monthly_payment, interest_payment), current_balance)

\* current_balance -= principal_payment
PayDown(balance, payment) == FSub(balance, payment)

\* sum(xs): the items added one after the other, from the left
RECURSIVE SumTo(_, _)
SumTo(xs, n) == IF n = 0 THEN 0 ELSE FAdd(SumTo(xs, n - 1), xs[n])

Sum(xs) == SumTo(xs, Len(xs))

\* the four lists after one more month; the model records MaxMonths months
RecordMonth(sc, m, balance, interest, principal_part) ==
    IF m > MaxMonths
    THEN sc
    ELSE [months |-> Append(sc.months, m),
          remaining_balance |-> Append(sc.remaining_balance, Max(0, balance)),
          interest_payments |-> Append(sc.interest_payments, interest),
          principal_payments |-> Append(sc.principal_payments, principal_part)]

CallDebt(p, r, m) ==
    /\ pc = "idle"
    /\ call' = "debt"
    /\ args' = [function |-> "calculate_debt_payoff", principal |-> p,
                annual_interest_rate |-> r, monthly_payment |-> m]
    /\ IF PaymentTooLow(p, r, m)
       THEN /\ pc' = "raised"
            /\ error' = "ValueError"
            /\ UNCHANGED current_balance
       ELSE /\ pc' = "loop"
            /\ error' = "none"
            /\ current_balance' = p
    /\ month' = 0
    /\ schedule' = EmptySchedule
    /\ UNCHANGED <<data, result>>
    /\ UNCHANGED <<period, total_contributions, timeline, summary>>

\* one iteration of the while loop; past MaxMonths the loop goes on and the model
\* stops counting and recording
DebtStep ==
    /\ call = "debt"
    /\ pc = "loop"
    /\ GreaterThanCent(current_balance)
    /\ month' = Min(month + 1, MaxMonths + 1)
    /\ current_balance' = PayDown(current_balance, principal_payment)
    /\ schedule' = RecordMonth(schedule, month + 1, current_balance',
                               interest_payment, principal_payment)
    /\ UNCHANGED <<data, result>>
    /\ UNCHANGED <<call, pc, error, args, period, total_contributions,
                   timeline, summary>>

DebtSummary ==
    LET total_interest == Sum(schedule.interest_payments)
    IN [function |-> "calculate_debt_payoff",
        months_to_payoff |-> Len(schedule.months),
        years_to_payoff |-> IntDiv(Len(schedule.months), 12),
        total_interest_paid |-> total_interest,
        total_amount_paid |-> FAdd(args.principal, total_interest),
        original_principal |-> args.principal,
        monthly_payment |-> args.monthly_payment,
        annual_interest_rate |-> args.annual_interest_rate]

DebtReturn ==
    /\ call = "debt"
    /\ pc = "loop"
    /\ ~GreaterThanCent(current_balance)
    /\ pc' = "returned"
    /\ summary' = DebtSummary
    /\ UNCHANGED <<data, result>>
    /\ UNCHANGED <<call, error, args, period, month, current_balance,
                   total_contributions, timeline, schedule>>

----------------------------------------------------------------------------
(* calculate_retirement_goal *)

\* the age check with < in place of <=
TooLateToSaveStrict(current_age, retirement_age) ==
    retirement_age - current_age < 0

\* years_to_retirement <= 0
TooLateToSave(current_age, retirement_age) ==
    retirement_age - current_age <= 0

years_to_retirement(a) == a.retirement_age - a.current_age

\* target_amount * ((1 + annual_inflation) ** years_to_retirement)
inflation_adjusted_target(a) ==
    FMul(a.target_amount,
         FPow(FAdd(Unit, a.annual_inflation), years_to_retirement(a)))

\* years_to_retirement * periods_per_year
retirement_periods(a) ==
    years_to_retirement(a) * frequency_map[a.contribution_frequency]

\* annual_return / periods_per_year
retirement_period_return(a) ==
    FDivInt(a.annual_return, frequency_map[a.contribution_frequency])

\* current_savings * ((1 + annual_return) ** years_to_retirement)
future_value_current(a) ==
    FMul(a.current_savings,
         FPow(FAdd(Unit, a.annual_return), years_to_retirement(a)))

additional_needed(a) ==
    FSub(inflation_adjusted_target(a), future_value_current(a))

\* the call reaches the annuity formula
UsesAnnuity(a) == additional_needed(a) > 0 /\ retirement_period_return(a) # 0

\* the floats (1 + period_return) ** total_periods can be
GrowthFactors(a) ==
    IF UsesAnnuity(a)
    THEN PowResults(FAdd(Unit, retirement_period_return(a)), retirement_periods(a))
    ELSE {Unit}

\* the number the call divides by, if it divides
RetirementDivisor(a, factor) ==
    IF additional_needed(a) <= 0 THEN 1
    ELSE IF retirement_period_return(a) = 0 THEN retirement_periods(a)
    ELSE FSub(factor, Unit)

\* additional_needed spread over the periods whatever its sign
RequiredContributionUnclamped(a, factor) ==
    FDivInt(additional_needed(a), retirement_periods(a))

\* required_contribution, given the float factor = (1 + period_return) ** total_periods
required_contribution(a, factor) ==
    IF additional_needed(a) <= 0 THEN 0
    ELSE IF retirement_period_return(a) = 0
         THEN FDivInt(additional_needed(a), retirement_periods(a))
         ELSE FDiv(FMul(additional_needed(a), retirement_period_return(a)),
                   FSub(factor, Unit))

RetirementSummary(a, factor) ==
    [function |-> "calculate_retirement_goal",
     required_contribution |-> required_contribution(a, factor),
     years_to_retirement |-> years_to_retirement(a),
     future_value_current_savings |-> future_value_current(a),
     additional_needed |-> additional_needed(a),
     total_contributions_needed |->
         RoundQ(required_contribution(a, factor) * retirement_periods(a), 1),
     contribution_frequency |-> a.contribution_frequency,
     target_amount_today |-> a.target_amount,
     inflation_adjusted_target |-> inflation_adjusted_target(a),
     annual_inflation |-> a.annual_inflation]

CallRetirement(t, ca, ra, s, r, f, i) ==
    LET a == [function |-> "calculate_retirement_goal",
              target_amount |-> t, current_age |-> ca, retirement_age |-> ra,
              current_savings |-> s, annual_return |-> r,
              contribution_frequency |-> f, annual_inflation |-> i]
    IN /\ pc = "idle"
       /\ call' = "retirement"
       /\ args' = a
       /\ IF TooLateToSave(ca, ra)
          THEN /\ pc' = "raised"
               /\ error' = "ValueError"
               /\ UNCHANGED summary
          ELSE IF f \notin DOMAIN frequency_map
          THEN /\ pc' = "raised"
               /\ error' = "KeyError"
               /\ UNCHANGED summary
          ELSE \E factor \in GrowthFactors(a) :
                  IF RetirementDivisor(a, factor) = 0
                  THEN /\ pc' = "raised"
                       /\ error' = "ZeroDivisionError"
                       /\ UNCHANGED summary
                  ELSE /\ pc' = "returned"
                       /\ error' = "none"
                       /\ summary' = RetirementSummary(a, factor)
       /\ UNCHANGED <<data, result>>
       /\ UNCHANGED <<period, month, current_balance, total_contributions,
                      timeline, schedule>>

----------------------------------------------------------------------------
(* Statistics of a price table (src/src/helper/data.py).  A table has an index *)
(* and a list of named columns; a cell is <<x>> for the float x and <<>> for a *)
(* missing value (NaN).                                                        *)

Missing == <<>>

Column(name, values) == [name |-> name, values |-> values]

\* the table a caller passes: the prices in column 0, and a benchmark column
\* when the caller has merged one in
PriceTable(series, benchmark) ==
    LET n == Len(series)
        close == Column(<<"Close">>, [k \in 1 .. n |-> <<series[k]>>])
        bench == Column(<<"Benchmark">>, [k \in 1 .. n |-> <<Unit>>])
    IN [index |-> [k \in 1 .. n |-> k],
        columns |-> IF benchmark THEN <<close, bench>> ELSE <<close>>]

\* data.iloc[:, 0]
FirstColumn(tbl) == tbl.columns[1].values

HasColumn(tbl, name) == \E k \in 1 .. Len(tbl.columns) : tbl.columns[k].name = name

ColumnValues(tbl, name) ==
    tbl.columns[CHOOSE k \in 1 .. Len(tbl.columns) : tbl.columns[k].name = name].values

\* data[name] = values: an existing column is overwritten in place, a new one
\* is appended
SetColumn(tbl, name, values) ==
    IF HasColumn(tbl, name)
    THEN [tbl EXCEPT !.columns =
             [k \in 1 .. Len(tbl.columns) |->
                 IF tbl.columns[k].name = name
                 THEN Column(name, values) ELSE tbl.columns[k]]]
    ELSE [tbl EXCEPT !.columns = Append(tbl.columns, Column(name, values))]

\* the sum of the cells from .. to, added in row order
RECURSIVE WindowSum(_, _, _)
WindowSum(cells, from, to) ==
    IF to < from THEN 0
    ELSE FAdd(WindowSum(cells, from, to - 1), cells[to][1])

\* the mean over the rows that lie in the window, however few (min_periods = 1)
RollingMeanMinPeriodsOne(cells, window) ==
    [k \in 1 .. Len(cells) |->
        <<FDivInt(WindowSum(cells, Max(1, k - window + 1), k),
                  Min(k, window))>>]

\* the window laid out ahead of its row: rows k .. k + window - 1
RollingMeanLeading(cells, window) ==
    [k \in 1 .. Len(cells) |->
        IF k + window - 1 > Len(cells) THEN Missing
        ELSE <<FDivInt(WindowSum(cells, k, k + window - 1), window)>>]

\* series.rolling(window=window).mean(): the mean of the window of rows that
\* ends at the row, missing until the window is full
RollingMean(cells, window) ==
    [k \in 1 .. Len(cells) |->
        IF k < window THEN Missing
        ELSE <<FDivInt(WindowSum(cells, k - window + 1, k), window)>>]

\* f'MA_{window}'
MAName(window) == <<"MA", window>>

RECURSIVE add_moving_averages(_, _)
add_moving_averages(tbl, windows) ==
    IF windows = <<>> THEN tbl
    ELSE add_moving_averages(
             SetColumn(tbl, MAName(Head(windows)),
                       RollingMean(FirstColumn(tbl), Head(windows))),
             Tail(windows))

\* series.pct_change()
PctChange(cells) ==
    [k \in 1 .. Len(cells) |->
        IF k = 1 THEN Missing
        ELSE <<FSub(FDiv(cells[k][1], cells[k - 1][1]), Unit)>>]

add_daily_returns(tbl) ==
    SetColumn(tbl, <<"Daily_Return">>, PctChange(FirstColumn(tbl)))

\* series.cumprod(): the running product of the cells present; a missing cell
\* stays missing and is skipped
RECURSIVE CumProd(_, _)
CumProd(cells, k) ==
    IF k = 0 THEN <<>>
    ELSE LET before == CumProd(cells, k - 1)
             present == {j \in 1 .. k - 1 : before[j] # Missing}
             last == CHOOSE j \in present : \A i \in present : i <= j
         IN Append(before,
                   IF cells[k] = Missing THEN Missing
                   ELSE IF present = {} THEN cells[k]
                   ELSE <<FMul(before[last][1], cells[k][1])>>)

\* (1 + series.pct_change()).cumprod() - 1
CumulativeReturn(cells) ==
    LET growth == [k \in 1 .. Len(cells) |->
                      IF PctChange(cells)[k] = Missing THEN Missing
                      ELSE <<FAdd(Unit, PctChange(cells)[k][1])>>]
        product == CumProd(growth, Len(cells))
    IN [k \in 1 .. Len(cells) |->
           IF product[k] = Missing THEN Missing
           ELSE <<FSub(product[k][1], Unit)>>]

add_cumulative_returns(tbl) ==
    SetColumn(tbl, <<"Cumulative_Return">>, CumulativeReturn(FirstColumn(tbl)))

\* the largest price of the whole series
SeriesMax(cells, k) ==
    CHOOSE x \in {cells[j][1] : j \in 1 .. Len(cells)} :
        \A j \in 1 .. Len(cells) : cells[j][1] <= x

\* the largest price of rows 1 .. k
RunningMax(cells, k) ==
    CHOOSE x \in {cells[j][1] : j \in 1 .. k} : \A j \in 1 .. k : cells[j][1] <= x

\* series.cummax()
CumMax(cells) == [k \in 1 .. Len(cells) |-> <<RunningMax(cells, k)>>]

add_cummulative_all_time_high(tbl) ==
    SetColumn(tbl, <<"Cumulative_All_Time_High">>, CumMax(FirstColumn(tbl)))

\* series / series.cummax() - 1
Drawdown(cells) ==
    [k \in 1 .. Len(cells) |->
        <<FSub(FDiv(cells[k][1], CumMax(cells)[k][1]), Unit)>>]

\* the rank of a tie is the smallest of the ranks its rows take in sorted order
MinRank(cells, k) ==
    (Cardinality({j \in 1 .. Len(cells) : cells[j][1] < cells[k][1]}) + 1) * Unit

\* the rank of row k: the mean of the ranks 1, 2, ... that the rows equal to it
\* take in sorted order
AverageRank(cells, k) ==
    LET below == Cardinality({j \in 1 .. Len(cells) : cells[j][1] < cells[k][1]})
        ties == Cardinality({j \in 1 .. Len(cells) : cells[j][1] = cells[k][1]})
        ranks == [t \in 1 .. ties |-> <<(below + t) * Unit>>]
    IN FDivInt(WindowSum(ranks, 1, ties), ties)

\* the ranks counted from 0, so that the lowest value has percentile 0
RankPctFromZero(cells) ==
    [k \in 1 .. Len(cells) |->
        <<FDivInt(FSub(AverageRank(cells, k), Unit), Len(cells))>>]

\* series.rank(pct=True): the rank divided by the number of rows
RankPct(cells) ==
    [k \in 1 .. Len(cells) |-> <<FDivInt(AverageRank(cells, k), Len(cells))>>]

add_drawdown_from_high(tbl) ==
    LET with_drawdown ==
            SetColumn(tbl, <<"Drawdown_From_High">>, Drawdown(FirstColumn(tbl)))
    IN SetColumn(with_drawdown, <<"Drawdown_Percentile">>,
                 RankPct(ColumnValues(with_drawdown, <<"Drawdown_From_High">>)))

\* windows=[20, 50, 100, 200]
StatisticsWindows == <<20, 50, 100, 200>>

\* the statistics of the price column alone: the other columns of the input
\* are not carried over
AddStatisticsPriceOnly(tbl) ==
    add_drawdown_from_high(
        add_cummulative_all_time_high(
            add_cumulative_returns(
                add_daily_returns(
                    add_moving_averages([tbl EXCEPT !.columns = <<tbl.columns[1]>>],
                                        StatisticsWindows)))))

add_statistics(tbl) ==
    add_drawdown_from_high(
        add_cummulative_all_time_high(
            add_cumulative_returns(
                add_daily_returns(
                    add_moving_averages(tbl, StatisticsWindows)))))

\* A call of one of the functions: data is the caller's table after the call,
\* result the table handed back.

\* data.copy(): the columns are added to a copy, the caller's table is left alone
CallAddMovingAverages(tbl, windows) ==
    /\ pc = "idle"
    /\ call' = "add_moving_averages"
    /\ pc' = "returned"
    /\ error' = "none"
    /\ args' = [function |-> "add_moving_averages", windows |-> windows]
    /\ data' = tbl
    /\ result' = add_moving_averages(tbl, windows)
    /\ UNCHANGED <<period, month, current_balance, total_contributions,
                   timeline, schedule, summary>>

\* the column is assigned on the table passed in, which is the table returned
CallAddDailyReturns(tbl) ==
    /\ pc = "idle"
    /\ call' = "add_daily_returns"
    /\ pc' = "returned"
    /\ error' = "none"
    /\ args' = [function |-> "add_daily_returns", windows |-> <<>>]
    /\ data' = add_daily_returns(tbl)
    /\ result' = add_daily_returns(tbl)
    /\ UNCHANGED <<period, month, current_balance, total_contributions,
                   timeline, schedule, summary>>

CallAddCumulativeReturns(tbl) ==
    /\ pc = "idle"
    /\ call' = "add_cumulative_returns"
    /\ pc' = "returned"
    /\ error' = "none"
    /\ args' = [function |-> "add_cumulative_returns", windows |-> <<>>]
    /\ data' = add_cumulative_returns(tbl)
    /\ result' = add_cumulative_returns(tbl)
    /\ UNCHANGED <<period, month, current_balance, total_contributions,
                   timeline, schedule, summary>>

CallAddCumulativeAllTimeHigh(tbl) ==
    /\ pc = "idle"
    /\ call' = "add_cummulative_all_time_high"
    /\ pc' = "returned"
    /\ error' = "none"
    /\ args' = [function |-> "add_cummulative_all_time_high", windows |-> <<>>]
    /\ data' = add_cummulative_all_time_high(tbl)
    /\ result' = add_cummulative_all_time_high(tbl)
    /\ UNCHANGED <<period, month, current_balance, total_contributions,
                   timeline, schedule, summary>>

CallAddDrawdownFromHigh(tbl) ==
    /\ pc = "idle"
    /\ call' = "add_drawdown_from_high"
    /\ pc' = "returned"
    /\ error' = "none"
    /\ args' = [function |-> "add_drawdown_from_high", windows |-> <<>>]
    /\ data' = add_drawdown_from_high(tbl)
    /\ result' = add_drawdown_from_high(tbl)
    /\ UNCHANGED <<period, month, current_balance, total_contributions,
                   timeline, schedule, summary>>

\* the first step copies the table, the later steps assign on the copy
CallAddStatistics(tbl) ==
    /\ pc = "idle"
    /\ call' = "add_statistics"
    /\ pc' = "returned"
    /\ error' = "none"
    /\ args' = [function |-> "add_statistics", windows |-> StatisticsWindows]
    /\ data' = tbl
    /\ result' = add_statistics(tbl)
    /\ UNCHANGED <<period, month, current_balance, total_contributions,
                   timeline, schedule, summary>>

----------------------------------------------------------------------------
(* Specifications *)

GrowthCall ==
    \E sb \in StartingBalances, c \in Contributions, f \in Frequencies,
       y \in YearCounts, r \in AnnualReturns, i \in Inflations, adj \in BOOLEAN :
        CallGrowth(sb, c, f, y, r, i, adj)

DebtCall ==
    \E p \in Principals, r \in InterestRates, m \in Payments : CallDebt(p, r, m)

RetirementCall ==
    \E t \in TargetAmounts, ca \in CurrentAges, ra \in RetirementAges,
       s \in CurrentSavings, r \in RetirementReturns, f \in Frequencies,
       i \in Inflations :
        CallRetirement(t, ca, ra, s, r, f, i)

\* the tables a caller passes
Tables == {PriceTable(series, benchmark) : series \in PriceSeries, benchmark \in BOOLEAN}

AddMovingAverages ==
    \E tbl \in Tables, windows \in WindowLists : CallAddMovingAverages(tbl, windows)

AddDailyReturns == \E tbl \in Tables : CallAddDailyReturns(tbl)

AddCumulativeReturns == \E tbl \in Tables : CallAddCumulativeReturns(tbl)

AddCumulativeAllTimeHigh == \E tbl \in Tables : CallAddCumulativeAllTimeHigh(tbl)

AddDrawdownFromHigh == \E tbl \in Tables : CallAddDrawdownFromHigh(tbl)

AddStatistics == \E tbl \in Tables : CallAddStatistics(tbl)

Next ==
    \/ GrowthCall
    \/ GrowthStep
    \/ GrowthReturn
    \/ DebtCall
    \/ DebtStep
    \/ DebtReturn
    \/ RetirementCall
    \/ AddMovingAverages
    \/ AddDailyReturns
    \/ AddCumulativeReturns
    \/ AddCumulativeAllTimeHigh
    \/ AddDrawdownFromHigh
    \/ AddStatistics

Spec == Init /\ [][Next]_vars

\* the growth engine alone
GrowthNext ==
    \/ GrowthCall
    \/ GrowthStep
    \/ GrowthReturn

Growth == Init /\ [][GrowthNext]_vars

\* the debt engine alone
DebtNext ==
    \/ DebtCall
    \/ DebtStep
    \/ DebtReturn

Debt == Init /\ [][DebtNext]_vars

\* the interpreter runs the loop's next iteration whenever there is one
DebtLive == Debt /\ WF_vars(DebtNext)

\* the retirement engine alone
Retirement == Init /\ [][RetirementCall]_vars

\* the statistics functions alone
StatisticsNext ==
    \/ AddMovingAverages
    \/ AddDailyReturns
    \/ AddCumulativeReturns
    \/ AddCumulativeAllTimeHigh
    \/ AddDrawdownFromHigh
    \/ AddStatistics

Statistics == Init /\ [][StatisticsNext]_vars

----------------------------------------------------------------------------
(* Claims about calculate_debt_payoff *)

InDebt == call = "debt"

DebtReturned == call = "debt" /\ pc = "returned"

\* the model recorded every month of the schedule
FullyRecorded == month <= MaxMonths

\* C1: a payment not above the first month's interest, monthly_payment <=
\* principal * (annual_interest_rate / 12), equality included, is rejected with a
\* ValueError before the first iteration: no month is simulated, no schedule and
\* no summary is produced.
C1_LowPaymentRejected ==
    (InDebt /\ args.monthly_payment
                 <= FMul(args.principal, FDivInt(args.annual_interest_rate, 12)))
        => /\ pc = "raised"
           /\ error = "ValueError"
           /\ month = 0
           /\ schedule = EmptySchedule
           /\ summary = NoSummary

\* a rejected call whose payment equals the first month's interest exactly
C1_Witness ==
    /\ InDebt
    /\ pc = "raised"
    /\ args.annual_interest_rate > 0
    /\ args.principal > 0
    /\ args.monthly_payment
         = FMul(args.principal, FDivInt(args.annual_interest_rate, 12))

\* a call with a positive principal that passed the check and is in its loop
C2_Accepted ==
    InDebt /\ pc = "loop" /\ args.principal > 0 /\ args.annual_interest_rate >= 0

\* the call returned with a remaining balance of at most 0.01
C2_PaidOff == pc = "returned" /\ 100 * current_balance <= Unit

\* C2: every call that passes the precondition (principal > 0, annual rate >= 0,
\* payment above the first month's interest) eventually leaves the loop and
\* returns with a remaining balance of at most 0.01.
C2_LoopTerminates == C2_Accepted ~> C2_PaidOff

\* the smallest k >= from with principal - k * payment <= 0.01, in exact arithmetic
RECURSIVE C3_MonthsNeeded(_, _, _)
C3_MonthsNeeded(principal, payment, from) ==
    IF 100 * (principal - from * payment) <= Unit
    THEN from
    ELSE C3_MonthsNeeded(principal, payment, from + 1)

\* C3: at an annual rate of 0 with a payment > 0 the summary reports no interest
\* and months_to_payoff is the smallest k with principal - k * payment <= 0.01.
C3_ZeroRateMonths ==
    (DebtReturned /\ FullyRecorded /\ args.annual_interest_rate = 0
        /\ args.monthly_payment > 0)
        => /\ summary.total_interest_paid = 0
           /\ summary.months_to_payoff
                = C3_MonthsNeeded(args.principal, args.monthly_payment, 0)

----------------------------------------------------------------------------
(* Claims about calculate_cumulative_growth *)

InGrowth == call = "growth"

GrowthReturned == call = "growth" /\ pc = "returned"

\* C4: a contribution_frequency other than daily, weekly, monthly or quarterly
\* raises a ValueError at once: no period is simulated and neither a timeline nor
\* a summary is produced.
C4_BadFrequencyRejected ==
    (InGrowth /\ args.contribution_frequency
                    \notin {"daily", "weekly", "monthly", "quarterly"})
        => /\ pc = "raised"
           /\ error = "ValueError"
           /\ period = 0
           /\ timeline = EmptyTimeline
           /\ summary = NoSummary

\* a call with an unsupported frequency, rejected
C4_Witness ==
    InGrowth /\ args.contribution_frequency = "yearly" /\ pc = "raised"

\* the contribution added after snapshot p, counted from 0: the base amount, or
\* with escalation the base amount times (1 + inflation) ** floor(p / periods)
C5_Contribution(p) ==
    LET year == p \div frequency_map[args.contribution_frequency]
    IN IF args.inflation_adjust_contributions /\ year > 0
       THEN FMul(args.periodic_contribution,
                 FPow(FAdd(Unit, args.annual_inflation), year))
       ELSE args.periodic_contribution

\* 1 + annual_return / periods_per_year
C5_Factor ==
    FAdd(Unit, FDivInt(args.annual_return,
                       frequency_map[args.contribution_frequency]))

\* C5: in the returned timeline balance[0] is the starting balance and, for every
\* n >= 1, balance[n] = balance[n-1] * (1 + annual_return / periods_per_year)
\* + contribution(n), the contribution being the escalated one where escalation
\* applies.  (Sequences count from 1: snapshot n is item n + 1.)
C5_BalanceRecurrence ==
    GrowthReturned =>
        /\ timeline.balance[1] = args.starting_balance
        /\ \A n \in 1 .. Len(timeline.balance) - 1 :
              timeline.balance[n + 1] =
                  FAdd(FMul(timeline.balance[n], C5_Factor), C5_Contribution(n - 1))

\* a returned two-year timeline with a return, a contribution and escalation, in
\* which the balance moved and an escalated contribution was added
C5_Witness ==
    /\ GrowthReturned
    /\ args.years = 2
    /\ args.annual_return > 0
    /\ args.periodic_contribution > 0
    /\ args.inflation_adjust_contributions
    /\ args.annual_inflation > 0
    /\ C5_Factor > Unit
    /\ Last(timeline.balance) > timeline.balance[1]
    /\ C5_Contribution(Len(timeline.balance) - 2) > args.periodic_contribution

\* C6: with annual return 0 and no escalation the summary reports final_balance =
\* starting_balance + periodic_contribution * years * periods_per_year and
\* total_interest = 0.
C6_ZeroReturnTotal ==
    (GrowthReturned /\ args.annual_return = 0
        /\ ~args.inflation_adjust_contributions)
        => /\ summary.final_balance =
                  args.starting_balance
                  + args.periodic_contribution * args.years
                      * frequency_map[args.contribution_frequency]
           /\ summary.total_interest = 0

\* C7: for starting balance, contribution, inflation and annual return all >= 0
\* the balance of the returned timeline never decreases from one snapshot to the
\* next.
C7_BalanceNonDecreasing ==
    (GrowthReturned /\ args.starting_balance >= 0
        /\ args.periodic_contribution >= 0 /\ args.annual_inflation >= 0
        /\ args.annual_return >= 0)
        => \A n \in 1 .. Len(timeline.balance) - 1 :
              timeline.balance[n + 1] >= timeline.balance[n]

\* a returned timeline of non-negative inputs whose balance rose
C7_Witness ==
    /\ GrowthReturned
    /\ args.starting_balance > 0
    /\ args.periodic_contribution > 0
    /\ args.annual_inflation >= 0
    /\ args.annual_return > 0
    /\ Len(timeline.balance) > 2
    /\ Last(timeline.balance) > timeline.balance[1]

\* C8: for a contribution >= 0 and inflation >= 0, with or without escalation, the
\* contributions column starts at the starting balance and never decreases, and
\* at every snapshot interest = balance - contributions.
C8_ContributionsAndInterest ==
    (GrowthReturned /\ args.periodic_contribution >= 0
        /\ args.annual_inflation >= 0)
        => /\ timeline.contributions[1] = args.starting_balance
           /\ \A n \in 1 .. Len(timeline.contributions) - 1 :
                 timeline.contributions[n + 1] >= timeline.contributions[n]
           /\ \A n \in 1 .. Len(timeline.interest) :
                 timeline.interest[n] =
                     FSub(timeline.balance[n], timeline.contributions[n])

\* a returned timeline with escalated contributions, growing contributions and
\* interest earned
C8_Witness ==
    /\ GrowthReturned
    /\ args.periodic_contribution > 0
    /\ args.inflation_adjust_contributions
    /\ args.annual_inflation > 0
    /\ args.years = 2
    /\ Last(timeline.contributions) > timeline.contributions[1]
    /\ Last(timeline.interest) > 0

\* C9: the returned timeline has years * periods_per_year + 1 snapshots, all five
\* lists have that length, and snapshot p carries the elapsed years
\* p / periods_per_year.
C9_TimelineLength ==
    GrowthReturned =>
        LET ppy == frequency_map[args.contribution_frequency]
            n == args.years * ppy + 1
        IN /\ Len(timeline.years) = n
           /\ Len(timeline.balance) = n
           /\ Len(timeline.contributions) = n
           /\ Len(timeline.interest) = n
           /\ Len(timeline.real_value_balance) = n
           /\ \A p \in 0 .. n - 1 : timeline.years[p + 1] = IntDiv(p, ppy)

\* a returned two-year daily timeline: 731 snapshots
C9_Witness ==
    /\ GrowthReturned
    /\ args.years = 2
    /\ args.contribution_frequency = "daily"
    /\ Len(timeline.balance) = 731

\* C10: a starting balance of 0 with years >= 1 and a supported frequency is
\* served: the call raises nothing.
C10_ZeroStartServed ==
    (InGrowth /\ args.starting_balance = 0 /\ args.years >= 1
        /\ args.contribution_frequency \in {"daily", "weekly", "monthly", "quarterly"})
        => pc # "raised"

----------------------------------------------------------------------------
(* Claims about calculate_retirement_goal *)

InRetirement == call = "retirement"

RetirementReturned == call = "retirement" /\ pc = "returned"

SupportedFrequencies == {"daily", "weekly", "monthly", "quarterly"}

\* a call that passes the age check with a supported frequency
RetirementAccepted ==
    /\ InRetirement
    /\ args.retirement_age > args.current_age
    /\ args.contribution_frequency \in SupportedFrequencies

\* the inflation-escalated target minus the future value of the current savings,
\* from the arguments of the call
RetirementGap ==
    LET years == args.retirement_age - args.current_age
    IN FSub(FMul(args.target_amount, FPow(FAdd(Unit, args.annual_inflation), years)),
            FMul(args.current_savings, FPow(FAdd(Unit, args.annual_return), years)))

\* the per-period rate annual_return / periods_per_year of an accepted call
RetirementRate ==
    FDivInt(args.annual_return, frequency_map[args.contribution_frequency])

\* C11: a call with retirement_age <= current_age, equality included, raises
\* ValueError and returns no result.
C11_NoHorizonRejected ==
    (InRetirement /\ args.retirement_age <= args.current_age)
        => (pc = "raised" /\ error = "ValueError" /\ summary = NoSummary)

\* a rejected call with retirement_age = current_age
C11_Witness ==
    /\ InRetirement
    /\ args.retirement_age = args.current_age
    /\ pc = "raised"
    /\ error = "ValueError"

\* C12: when the inflation-escalated target minus the future value of the current
\* savings is <= 0, the returned required_contribution is 0 and
\* total_contributions_needed is 0.
C12_NoGapNoContribution ==
    (RetirementReturned /\ RetirementGap <= 0)
        => (summary.required_contribution = 0
            /\ summary.total_contributions_needed = 0)

\* a returned call whose savings alone outgrow a positive target
C12_Witness ==
    /\ RetirementReturned
    /\ args.target_amount > 0
    /\ RetirementGap < 0
    /\ summary.required_contribution = 0

\* <<value, growth>> after n periods of end-of-period payments compounded at
\* the rate: the value of the payments and the growth factor of one unit; the
\* value after 2k periods is the value after k periods compounded for k more
\* periods, plus the value of the k later payments
C13_Annuity[payment \in Int, rate \in Int, n \in Nat] ==
    IF n = 0 THEN <<0, Unit>>
    ELSE IF n % 2 = 1
         THEN LET p == C13_Annuity[payment, rate, n - 1]
              IN <<FAdd(FMul(p[1], FAdd(Unit, rate)), payment),
                   FMul(p[2], FAdd(Unit, rate))>>
         ELSE LET p == C13_Annuity[payment, rate, n \div 2]
              IN <<FAdd(FMul(p[1], p[2]), p[1]), FMul(p[2], p[2])>>

C13_Accumulated(payment, rate, n) == C13_Annuity[payment, rate, n][1]

\* C13: with a positive gap and a per-period rate r # 0 the call returns a
\* required_contribution whose total_periods end-of-period payments, each
\* compounded at r, accumulate to exactly the gap.
C13_AnnuityFundsGap ==
    (RetirementAccepted /\ RetirementGap > 0 /\ RetirementRate # 0)
        => /\ pc = "returned"
           /\ C13_Accumulated(summary.required_contribution, RetirementRate,
                              summary.years_to_retirement
                                  * frequency_map[args.contribution_frequency])
                  = RetirementGap

\* C14: with a per-period rate of 0 and a positive gap the required contribution
\* is gap / total_periods, and no call with retirement_age > current_age and a
\* supported frequency divides by zero.
C14_NoDivisionByZero ==
    RetirementAccepted
        => /\ error # "ZeroDivisionError"
           /\ (RetirementRate = 0 /\ RetirementGap > 0)
                  => /\ pc = "returned"
                     /\ summary.required_contribution
                            = FDivInt(RetirementGap,
                                      (args.retirement_age - args.current_age)
                                          * frequency_map[args.contribution_frequency])

\* C15: a call with an unsupported frequency string raises the ValueError the
\* growth simulator raises for it, and returns no result.
C15_BadFrequencyValueError ==
    (InRetirement /\ args.contribution_frequency \notin SupportedFrequencies)
        => (pc = "raised" /\ error = "ValueError" /\ summary = NoSummary)

----------------------------------------------------------------------------
(* Claims about the statistics of a price table *)

MovingAveragesReturned == call = "add_moving_averages" /\ pc = "returned"

\* a returned table that carries the drawdown columns
DrawdownReturned ==
    call \in {"add_drawdown_from_high", "add_statistics"} /\ pc = "returned"

\* the prices of the table passed to a returned call
PassedPrices == [k \in 1 .. Len(data.index) |-> data.columns[1].values[k][1]]

\* the windows of the call
AskedWindows == {args.windows[j] : j \in 1 .. Len(args.windows)}

\* the unrounded sum of prices from .. to
RECURSIVE C17_Total(_, _, _)
C17_Total(prices, from, to) ==
    IF to < from THEN 0 ELSE C17_Total(prices, from, to - 1) + prices[to]

\* C17: for every window w of a call of add_moving_averages, the column MA_w is
\* missing at rows 0 .. w-2 and holds the arithmetic mean of the prices of rows
\* i-w+1 .. i at every row i >= w-1 (rows counted from 0; the model's row k is
\* row k-1).
C17_MovingAverageWarmUp ==
    MovingAveragesReturned =>
        \A w \in AskedWindows :
            LET ma == ColumnValues(result, MAName(w))
            IN /\ Len(ma) = Len(PassedPrices)
               /\ \A k \in 1 .. Len(ma) :
                      IF k < w
                      THEN ma[k] = Missing
                      ELSE ma[k] = <<RoundQ(C17_Total(PassedPrices, k - w + 1, k), w)>>

\* a three-row series of changing prices with window 2: row 0 missing, rows 1
\* and 2 averaged
C17_Witness ==
    /\ MovingAveragesReturned
    /\ args.windows = <<2>>
    /\ Len(PassedPrices) = 3
    /\ PassedPrices[1] < PassedPrices[2]
    /\ PassedPrices[3] < PassedPrices[2]
    /\ ColumnValues(result, MAName(2))[1] = Missing
    /\ ColumnValues(result, MAName(2))[3] # Missing

\* the column MA_w of the returned table has no value at all
AllMissing(w) ==
    \A k \in 1 .. Len(ColumnValues(result, MAName(w))) :
        ColumnValues(result, MAName(w))[k] = Missing

\* C18 as stated: a window w >= the number of rows, w equal to it included,
\* gives a column MA_w with every row missing.
C18_WindowAtLeastLengthAllMissing ==
    MovingAveragesReturned =>
        \A w \in AskedWindows : w >= Len(PassedPrices) => AllMissing(w)

\* C18: a window w greater than the number of rows gives a column MA_w with
\* every row missing, and the call returns without an error.
C18_WindowOverLengthAllMissing ==
    (call = "add_moving_averages"
        /\ \E w \in AskedWindows : w > Len(PassedPrices))
        => /\ pc = "returned"
           /\ error = "none"
           /\ \A w \in AskedWindows :
                  /\ HasColumn(result, MAName(w))
                  /\ Len(ColumnValues(result, MAName(w))) = Len(PassedPrices)
                  /\ w > Len(PassedPrices) => AllMissing(w)

\* a three-row series with window 4
C18_Witness ==
    /\ MovingAveragesReturned
    /\ args.windows = <<4>>
    /\ Len(PassedPrices) = 3
    /\ AllMissing(4)

\* the highest price of rows 1 .. k
C19_HighSoFar(prices, k) ==
    CHOOSE x \in {prices[j] : j \in 1 .. k} : \A j \in 1 .. k : prices[j] <= x

\* C19: in every row of a table with the drawdown columns, Drawdown_From_High is
\* <= 0, is 0 exactly where the price is the highest price so far, and is
\* price / Cumulative_All_Time_High - 1 of the same row.
C19_DrawdownFromHigh ==
    DrawdownReturned =>
        LET drawdown == ColumnValues(result, <<"Drawdown_From_High">>)
        IN /\ Len(drawdown) = Len(PassedPrices)
           /\ \A k \in 1 .. Len(drawdown) :
                  /\ drawdown[k] # Missing
                  /\ drawdown[k][1] <= 0
                  /\ drawdown[k][1] = 0
                         <=> PassedPrices[k] = C19_HighSoFar(PassedPrices, k)
                  /\ HasColumn(result, <<"Cumulative_All_Time_High">>)
                         => drawdown[k][1] =
                                FSub(FDiv(PassedPrices[k],
                                          ColumnValues(result,
                                              <<"Cumulative_All_Time_High">>)[k][1]),
                                     Unit)

\* a table of add_statistics with a price below the earlier high followed by a
\* new high
C19_Witness ==
    /\ call = "add_statistics"
    /\ pc = "returned"
    /\ Len(PassedPrices) = 3
    /\ PassedPrices[2] < PassedPrices[1]
    /\ PassedPrices[3] > PassedPrices[1]
    /\ ColumnValues(result, <<"Drawdown_From_High">>)[2][1] < 0
    /\ ColumnValues(result, <<"Drawdown_From_High">>)[3][1] = 0

\* C20: Drawdown_Percentile is the average rank of the row's drawdown among all
\* rows, divided by the number of rows: it lies in [0, 1], is equal for equal
\* drawdowns, is strictly lower for a strictly lower drawdown, and is lowest at
\* a single worst drawdown.
C20_PercentileRank ==
    DrawdownReturned =>
        LET drawdown == ColumnValues(result, <<"Drawdown_From_High">>)
            percentile == ColumnValues(result, <<"Drawdown_Percentile">>)
            rows == 1 .. Len(drawdown)
        IN /\ Len(percentile) = Len(drawdown)
           /\ \A k \in rows :
                  LET below == Cardinality({j \in rows : drawdown[j][1] < drawdown[k][1]})
                      ties == Cardinality({j \in rows : drawdown[j][1] = drawdown[k][1]})
                  IN /\ percentile[k] # Missing
                     /\ percentile[k][1] >= 0
                     /\ percentile[k][1] <= Unit
                     /\ percentile[k][1]
                            = RoundQ((2 * below + ties + 1) * Unit, 2 * Len(drawdown))
           /\ \A k \in rows, j \in rows :
                  /\ drawdown[j][1] = drawdown[k][1]
                         => percentile[j][1] = percentile[k][1]
                  /\ drawdown[j][1] < drawdown[k][1]
                         => percentile[j][1] < percentile[k][1]
           /\ \A k \in rows :
                  (\A j \in rows \ {k} : drawdown[k][1] < drawdown[j][1])
                      => \A j \in rows \ {k} : percentile[k][1] < percentile[j][1]

\* four rows: two at the high, two different drawdowns below it
C20_Witness ==
    /\ DrawdownReturned
    /\ Len(PassedPrices) = 4
    /\ LET drawdown == ColumnValues(result, <<"Drawdown_From_High">>)
           percentile == ColumnValues(result, <<"Drawdown_Percentile">>)
       IN /\ drawdown[1][1] = 0
          /\ drawdown[2][1] = 0
          /\ drawdown[3][1] < drawdown[4][1]
          /\ drawdown[4][1] < 0
          /\ percentile[1][1] = percentile[2][1]
          /\ percentile[3][1] < percentile[4][1]
          /\ percentile[4][1] < percentile[1][1]

\* the rows of the returned table whose drawdown is the lowest of the series
WorstRows ==
    LET drawdown == ColumnValues(result, <<"Drawdown_From_High">>)
    IN {k \in 1 .. Len(drawdown) :
           \A j \in 1 .. Len(drawdown) : drawdown[k][1] <= drawdown[j][1]}

\* the rows of the returned table at an all-time high
HighRows ==
    LET drawdown == ColumnValues(result, <<"Drawdown_From_High">>)
    IN {k \in 1 .. Len(drawdown) : drawdown[k][1] = 0}

\* C21 as stated: the worst drawdown row has Drawdown_Percentile 0 and the rows
\* at an all-time high have Drawdown_Percentile 1.
C21_WorstZeroHighOne ==
    DrawdownReturned =>
        LET percentile == ColumnValues(result, <<"Drawdown_Percentile">>)
        IN /\ \A k \in WorstRows : percentile[k][1] = 0
           /\ \A k \in HighRows : percentile[k][1] = Unit

\* C21: a single worst drawdown row has Drawdown_Percentile 1 / rows, which is
\* above 0; the t rows at an all-time high have the highest percentile,
\* (rows - (t - 1) / 2) / rows, which is 1 only when t = 1.
C21_WorstLowestHighHighest ==
    DrawdownReturned =>
        LET percentile == ColumnValues(result, <<"Drawdown_Percentile">>)
            rows == Len(percentile)
            t == Cardinality(HighRows)
        IN /\ \A k \in 1 .. rows : percentile[k][1] > 0
           /\ \A k \in WorstRows :
                  Cardinality(WorstRows) = 1 => percentile[k][1] = RoundQ(Unit, rows)
           /\ \A k \in HighRows :
                  /\ percentile[k][1] = RoundQ((2 * rows - t + 1) * Unit, 2 * rows)
                  /\ percentile[k][1] = Unit <=> t = 1
                  /\ \A j \in 1 .. rows : percentile[j][1] <= percentile[k][1]

\* four rows, two of them at the high and a single worst row below the rest
C21_Witness ==
    /\ DrawdownReturned
    /\ Len(PassedPrices) = 4
    /\ Cardinality(HighRows) = 2
    /\ Cardinality(WorstRows) = 1
    /\ \A k \in WorstRows :
           ColumnValues(result, <<"Drawdown_Percentile">>)[k][1] = RoundQ(Unit, 4)
    /\ \A k \in HighRows :
           ColumnValues(result, <<"Drawdown_Percentile">>)[k][1] < Unit

StatisticsReturned == call = "add_statistics" /\ pc = "returned"

\* (1 + returns[2]) * ... * (1 + returns[k]), multiplied in row order
RECURSIVE C22_Compounded(_, _)
C22_Compounded(returns, k) ==
    IF k <= 1 THEN Unit
    ELSE FMul(C22_Compounded(returns, k - 1), FAdd(Unit, returns[k][1]))

\* C22: Daily_Return is missing at row 0 and is price[n] / price[n-1] - 1 at
\* every row n >= 1; Cumulative_Return is 0 at row 0 and is the product of
\* (1 + Daily_Return) over rows 1 .. n, minus 1, at every row n >= 1.
C22_ReturnsFromRowZero ==
    (StatisticsReturned /\ Len(PassedPrices) >= 1) =>
        LET daily == ColumnValues(result, <<"Daily_Return">>)
            cumulative == ColumnValues(result, <<"Cumulative_Return">>)
        IN /\ daily[1] = Missing
           /\ cumulative[1] = <<0>>
           /\ \A k \in 2 .. Len(PassedPrices) :
                  /\ daily[k] = <<FSub(FDiv(PassedPrices[k], PassedPrices[k - 1]), Unit)>>
                  /\ cumulative[k] = <<FSub(C22_Compounded(daily, k), Unit)>>

\* the names of the nine columns add_statistics appends, in order
C23_Appended ==
    <<<<"MA", 20>>, <<"MA", 50>>, <<"MA", 100>>, <<"MA", 200>>,
      <<"Daily_Return">>, <<"Cumulative_Return">>, <<"Cumulative_All_Time_High">>,
      <<"Drawdown_From_High">>, <<"Drawdown_Percentile">>>>

\* C23: the table add_statistics returns has the index of the input, the input's
\* columns first, with their names, positions and values, and after them exactly
\* the nine columns MA_20, MA_50, MA_100, MA_200, Daily_Return,
\* Cumulative_Return, Cumulative_All_Time_High, Drawdown_From_High and
\* Drawdown_Percentile, whose values are those of the price column's statistics
\* whatever the other input columns are.
C23_AppendsNineColumns ==
    StatisticsReturned =>
        LET given == Len(data.columns)
            rows == Len(data.index)
        IN /\ result.index = data.index
           /\ Len(result.columns) = given + 9
           /\ \A k \in 1 .. given : result.columns[k] = data.columns[k]
           /\ \A k \in 1 .. 9 :
                  /\ result.columns[given + k].name = C23_Appended[k]
                  /\ Len(result.columns[given + k].values) = rows
           /\ \A k \in 1 .. 4, row \in 1 .. rows :
                  result.columns[given + k].values[row] =
                      IF row < C23_Appended[k][2] THEN Missing
                      ELSE <<RoundQ(C17_Total(PassedPrices,
                                              row - C23_Appended[k][2] + 1, row),
                                    C23_Appended[k][2])>>
           /\ \A row \in 1 .. rows :
                  /\ result.columns[given + 7].values[row]
                         = <<C19_HighSoFar(PassedPrices, row)>>
                  /\ result.columns[given + 8].values[row]
                         = <<FSub(FDiv(PassedPrices[row],
                                       C19_HighSoFar(PassedPrices, row)), Unit)>>
                  /\ row >= 2 =>
                         result.columns[given + 5].values[row]
                             = <<FSub(FDiv(PassedPrices[row], PassedPrices[row - 1]),
                                      Unit)>>

\* a returned table for an input of three rows with a benchmark column
C23_Witness ==
    /\ StatisticsReturned
    /\ Len(data.index) = 3
    /\ Len(data.columns) = 2
    /\ data.columns[2].name = <<"Benchmark">>
    /\ Len(result.columns) = 11
    /\ result.columns[2] = data.columns[2]

\* the five steps that can be called on their own
StatisticSteps ==
    {"add_moving_averages", "add_daily_returns", "add_cumulative_returns",
     "add_cummulative_all_time_high", "add_drawdown_from_high"}

\* the columns a caller's table has before any statistic is added
InputColumnNames == {<<"Close">>, <<"Benchmark">>}

\* C24: after a call of one of the five steps the returned table carries added
\* columns and the caller's table carries none: it has only the columns it was
\* passed with.
C24_CallerTableUntouched ==
    (call \in StatisticSteps /\ pc = "returned") =>
        /\ Len(result.columns) > Len(data.columns)
        /\ \A k \in 1 .. Len(data.columns) : data.columns[k].name \in InputColumnNames

----------------------------------------------------------------------------
(* Further claims about calculate_debt_payoff *)

\* the balance at the start of recorded month k
StartBalance(k) ==
    IF k = 1 THEN args.principal ELSE schedule.remaining_balance[k - 1]

\* C25 as stated, its consequence: in every recorded month interest plus
\* principal portion is at most the payment.
C25_WithinPayment ==
    (InDebt /\ FullyRecorded) =>
        \A k \in 1 .. Len(schedule.months) :
            schedule.interest_payments[k] + schedule.principal_payments[k]
                <= args.monthly_payment

\* C25: in every recorded month the interest portion is the balance at the start
\* of the month times annual rate / 12, the principal portion is
\* min(payment - interest, that balance), the new balance is that balance minus
\* the principal portion, the month indices are 1, 2, ... up to
\* months_to_payoff, and the principal portion is at most the float
\* payment - interest.
C25_MonthlySplit ==
    (InDebt /\ FullyRecorded) =>
        LET n == Len(schedule.months)
            rate == FDivInt(args.annual_interest_rate, 12)
        IN /\ Len(schedule.remaining_balance) = n
           /\ Len(schedule.interest_payments) = n
           /\ Len(schedule.principal_payments) = n
           /\ n = month
           /\ pc = "returned" => summary.months_to_payoff = n
           /\ \A k \in 1 .. n :
                  LET interest == schedule.interest_payments[k]
                      portion == schedule.principal_payments[k]
                  IN /\ schedule.months[k] = k
                     /\ interest = FMul(StartBalance(k), rate)
                     /\ portion = Min(FSub(args.monthly_payment, interest),
                                      StartBalance(k))
                     /\ schedule.remaining_balance[k] = FSub(StartBalance(k), portion)
                     /\ portion <= FSub(args.monthly_payment, interest)

\* a returned schedule of several months at a positive rate whose last month
\* pays less than the payment
C25_Witness ==
    /\ DebtReturned
    /\ FullyRecorded
    /\ args.annual_interest_rate > 0
    /\ Len(schedule.months) >= 3
    /\ schedule.interest_payments[1] > 0
    /\ schedule.principal_payments[Len(schedule.months)]
           < FSub(args.monthly_payment, schedule.interest_payments[Len(schedule.months)])

\* a call that passed the check: principal > 0, annual rate >= 0, payment above
\* the first month's interest
DebtAccepted ==
    /\ InDebt
    /\ pc \in {"loop", "returned"}
    /\ args.principal > 0
    /\ args.annual_interest_rate >= 0

\* C28: for every accepted call the recorded remaining balance goes strictly
\* down from month to month and is never negative, every principal portion is
\* strictly positive, and the last recorded balance of the returned schedule is
\* at most 0.01.
C28_BalanceStrictlyDecreasing ==
    (DebtAccepted /\ FullyRecorded) =>
        LET n == Len(schedule.months)
        IN /\ \A k \in 1 .. n :
                  /\ schedule.remaining_balance[k] < StartBalance(k)
                  /\ schedule.remaining_balance[k] >= 0
                  /\ schedule.principal_payments[k] > 0
           /\ (pc = "returned" /\ n >= 1)
                  => 100 * schedule.remaining_balance[n] <= Unit

\* the payments of months 1 .. n, interest and principal portion together, added
\* month after month
RECURSIVE C29_Paid(_)
C29_Paid(n) ==
    IF n = 0 THEN 0
    ELSE FAdd(C29_Paid(n - 1),
              FAdd(schedule.interest_payments[n], schedule.principal_payments[n]))

\* C29: the summary's total_amount_paid is the sum over the scheduled months of
\* interest portion + principal portion.
C29_TotalIsSchedulePaid ==
    (DebtAccepted /\ FullyRecorded /\ pc = "returned")
        => summary.total_amount_paid = C29_Paid(Len(schedule.months))

----------------------------------------------------------------------------
(* Further claims about calculate_cumulative_growth *)

\* periodic_contribution * (1 + annual_inflation) ^ floor(p / periods_per_year)
\* with the flag enabled, the base amount with the flag disabled
C26_Escalated(p) ==
    IF args.inflation_adjust_contributions
    THEN FMul(args.periodic_contribution,
              FPow(FAdd(Unit, args.annual_inflation),
                   p \div frequency_map[args.contribution_frequency]))
    ELSE args.periodic_contribution

\* C26: the contribution added right after snapshot p is periodic_contribution
\* * (1 + annual_inflation) ^ floor(p / periods_per_year) with the flag enabled:
\* the base amount through the first year, one amount within each year, a higher
\* one in each later year under positive inflation; with the flag disabled it is
\* the base amount.  (Sequences count from 1: snapshot p is item p + 1.)
C26_EscalationByYear ==
    GrowthReturned =>
        LET ppy == frequency_map[args.contribution_frequency]
        IN \A p \in 0 .. Len(timeline.contributions) - 2 :
               /\ timeline.contributions[p + 2]
                      = FAdd(timeline.contributions[p + 1], C26_Escalated(p))
               /\ p < ppy => C26_Escalated(p) = args.periodic_contribution
               /\ p >= ppy => C26_Escalated(p) = C26_Escalated((p \div ppy) * ppy)
               /\ (p >= ppy /\ args.inflation_adjust_contributions
                      /\ args.annual_inflation > 0 /\ args.periodic_contribution > 0)
                      => C26_Escalated(p) > C26_Escalated(p - ppy)
               /\ ~args.inflation_adjust_contributions
                      => C26_Escalated(p) = args.periodic_contribution

\* a returned two-year timeline with escalation: a second-year contribution
\* shows in the list as more than the base amount
C26_Witness ==
    /\ GrowthReturned
    /\ args.years = 2
    /\ args.inflation_adjust_contributions
    /\ args.annual_inflation > 0
    /\ args.periodic_contribution > 0
    /\ LET ppy == frequency_map[args.contribution_frequency]
       IN /\ timeline.contributions[ppy + 1]
                 = FAdd(timeline.contributions[ppy], args.periodic_contribution)
          /\ \E p \in ppy .. 2 * ppy - 1 :
                 timeline.contributions[p + 2]
                     > FAdd(timeline.contributions[p + 1], args.periodic_contribution)

\* an effective return flagged as undefined
UndefinedReturn == [undefined |-> TRUE]

====
